---- MODULE Spec2Model ----
(***************************************************************************)
(* Model of the Autocomplete component (src/unnamed/part_000) and of the   *)
(* fake suggestion source searchCities (components/api.ts).                *)
(*                                                                         *)
(* Strings are sequences of one-character strings.  One action is one      *)
(* macrotask of the browser event loop (a DOM event, a timer callback, the *)
(* settling of a request) together with everything that runs before the   *)
(* next macrotask: React's render and effects, and the promise             *)
(* continuations (microtasks) the handler makes runnable.                  *)
(***************************************************************************)
EXTENDS Integers, Sequences, FiniteSets, TLC

\* ---- bounds of the model ----
\* number of requests the suggestion source is sent in one behaviour
MaxFetches == 3

\* ---- alphabet and inputs ----
\* the texts the user types
Texts == {<<>>, <<" ">>, <<"b">>, <<"b", " ">>, <<"b", "o">>}
\* values of the minQueryLength prop that are explored
MinLengths == {1, 2}

\* results[i] for an index outside the array, in JavaScript
Undefined == <<"undefined">>

\* ---- the suggestion source (api.ts) ----
\* the city list, abridged to three short names
data == << <<"B", "o">>, <<"O", "b">>, <<"B", "b">> >>

LowerChar(c) == CASE c = "B" -> "b" [] c = "O" -> "o" [] OTHER -> c

toLowerCase(s) == [i \in 1..Len(s) |-> LowerChar(s[i])]

\* String.prototype.includes
includes(s, sub) ==
    \E k \in 0..(Len(s) - Len(sub)) :
        \A i \in 1..Len(sub) : s[k + i] = sub[i]

RECURSIVE filter(_, _)
\* data.filter(c => c.toLowerCase().includes(q.toLowerCase())), order kept
filter(list, q) ==
    IF list = <<>> THEN <<>>
    ELSE LET rest == filter(Tail(list), q)
         IN IF includes(toLowerCase(Head(list)), toLowerCase(q))
            THEN <<Head(list)>> \o rest
            ELSE rest

\* what the source resolves with for q
searchCities(q) == filter(data, q)

\* ---- String.prototype.trim ----
RECURSIVE trimStart(_)
trimStart(s) ==
    IF s # <<>> /\ Head(s) = " " THEN trimStart(Tail(s)) ELSE s

RECURSIVE trimEnd(_)
trimEnd(s) ==
    IF s # <<>> /\ s[Len(s)] = " " THEN trimEnd(SubSeq(s, 1, Len(s) - 1)) ELSE s

trim(s) == trimEnd(trimStart(s))

VARIABLES
    minQueryLength,     \* the minQueryLength prop (part_000:29)
    mounted,            \* the component is in the tree (cleanup effect, 48-53)
    query,              \* useState("") (39)
    results,            \* useState([]) (40)
    isOpen,             \* useState(false) (41)
    loading,            \* useState(false) (42)
    highlightedIndex,   \* useState(-1) (43)
    controllerRef,      \* (35) 0 is null, else the id of the request whose
                        \* AbortController it holds
    debounceRef,        \* (36) {} is null, else {q}: the handle of the timer
                        \* set for q; it is not reset when the timer fires
    timers,             \* timers of window.setTimeout (84) neither fired nor
                        \* cleared, each named by the q of its closure
    cacheRef,           \* (37) the Map, as a function from its keys
    requests,           \* every call of searchCities so far (97), in call
                        \* order: [q, state], state one of "pending",
                        \* "resolved", "aborted" (rejected with AbortError),
                        \* "failed" (rejected with another error)
    onSelectCalls,      \* arguments of the onSelect calls (149) of the last step
    consoleErrors       \* requests reported by console.error (102) in the last step

vars == <<minQueryLength, mounted, query, results, isOpen, loading,
          highlightedIndex, controllerRef, debounceRef, timers, cacheRef,
          requests, onSelectCalls, consoleErrors>>

Init ==
    /\ minQueryLength \in MinLengths
    /\ mounted = TRUE
    /\ query = <<>>
    /\ results = <<>>
    /\ isOpen = FALSE
    /\ loading = FALSE
    /\ highlightedIndex = -1
    /\ controllerRef = 0
    /\ debounceRef = {}
    /\ timers = {}
    /\ cacheRef = [k \in {} |-> <<>>]
    /\ requests = <<>>
    /\ onSelectCalls = <<>>
    /\ consoleErrors = <<>>

\* ---- helpers ----
\* a request that has been sent and has neither settled nor been aborted
Pending(i) == i \in DOMAIN requests /\ requests[i].state = "pending"

Live == {i \in DOMAIN requests : requests[i].state = "pending"}

\* controller.abort(): api.ts rejects the promise of a pending request at once
abort(c) ==
    IF c # 0 /\ Pending(c)
    THEN [requests EXCEPT ![c].state = "aborted"]
    ELSE requests

\* Effect without the clearTimeout of the previous timer
EffectKeepsTimer(t) ==
    LET q == trim(t)
    IN IF Len(q) < minQueryLength
       THEN [results |-> <<>>, loading |-> FALSE,
             timers |-> timers, debounceRef |-> {}]
       ELSE [results |-> results, loading |-> TRUE,
             timers |-> timers \cup {q}, debounceRef |-> {q}]

\* the effect keyed on [query, minQueryLength], run for the new text t:
\* what it leaves in results, loading, the timers and debounceRef
Effect(t) ==
    LET cleared == timers \ debounceRef
        q == trim(t)
    IN IF Len(q) < minQueryLength
       THEN [results |-> <<>>, loading |-> FALSE,
             timers |-> cleared, debounceRef |-> {}]
       ELSE [results |-> results, loading |-> TRUE,
             timers |-> cleared \cup {q}, debounceRef |-> {q}]

\* ---- text input ----
\* onChange of the input: the user changes the text to t
TextChange(t) ==
    /\ mounted
    /\ t # query
    /\ LET e == Effect(t)
       IN /\ query' = t
          /\ isOpen' = TRUE
          /\ results' = e.results
          /\ loading' = e.loading
          /\ timers' = e.timers
          /\ debounceRef' = e.debounceRef
    /\ onSelectCalls' = <<>>
    /\ consoleErrors' = <<>>
    /\ UNCHANGED <<minQueryLength, mounted, highlightedIndex, controllerRef,
                   cacheRef, requests>>

\* ---- the debounce timer callback ----
\* cacheRef.current.set(q, res)
cacheSet(q, res) ==
    [k \in (DOMAIN cacheRef) \cup {q} |-> IF k = q THEN res ELSE cacheRef[k]]

\* the timer set for q fires and q is in the cache
TimerFireHit(q) ==
    /\ q \in timers
    /\ q \in DOMAIN cacheRef
    /\ timers' = timers \ {q}
    /\ IF mounted
       THEN /\ results' = cacheRef[q]
            /\ loading' = FALSE
            /\ highlightedIndex' = -1
       ELSE UNCHANGED <<results, loading, highlightedIndex>>
    /\ onSelectCalls' = <<>>
    /\ consoleErrors' = <<>>
    /\ UNCHANGED <<minQueryLength, mounted, query, isOpen, controllerRef,
                   debounceRef, cacheRef, requests>>

\* controllerRef after the timer callback has sent request n and the
\* microtasks have run: the continuation of the request it aborted, if any,
\* ends in "controllerRef.current = null"
RefAfterFetch(abortedOne, n) == IF abortedOne THEN 0 ELSE n

\* the timer set for q fires and q is not in the cache: abort the request of
\* controllerRef, send a new one; then the aborted request's catch/finally,
\* which runs as a microtask once the callback has reached its await.
\* MaxFetches caps the number of requests of one behaviour.
TimerFireMiss(q) ==
    /\ q \in timers
    /\ q \notin DOMAIN cacheRef
    /\ Len(requests) < MaxFetches
    /\ timers' = timers \ {q}
    /\ LET abortedOne == controllerRef # 0 /\ Pending(controllerRef)
           n == Len(requests) + 1
       IN /\ requests' = Append(abort(controllerRef), [q |-> q, state |-> "pending"])
          /\ controllerRef' = RefAfterFetch(abortedOne, n)
          /\ IF abortedOne /\ mounted
             THEN /\ loading' = FALSE
                  /\ highlightedIndex' = -1
             ELSE UNCHANGED <<loading, highlightedIndex>>
    /\ onSelectCalls' = <<>>
    /\ consoleErrors' = <<>>
    /\ UNCHANGED <<minQueryLength, mounted, query, results, isOpen,
                   debounceRef, cacheRef>>

\* RequestResolve with the cache keyed by the current text instead of the q
\* the timer callback closed over
RequestResolveKeyedByText(i) ==
    /\ Pending(i)
    /\ LET res == searchCities(requests[i].q)
       IN /\ cacheRef' = cacheSet(trim(query), res)
          /\ IF mounted
             THEN /\ results' = res
                  /\ loading' = FALSE
                  /\ highlightedIndex' = -1
             ELSE UNCHANGED <<results, loading, highlightedIndex>>
    /\ requests' = [requests EXCEPT ![i].state = "resolved"]
    /\ controllerRef' = 0
    /\ onSelectCalls' = <<>>
    /\ consoleErrors' = <<>>
    /\ UNCHANGED <<minQueryLength, mounted, query, isOpen, debounceRef, timers>>

\* ---- settling of a request ----
\* the source resolves request i: try-body, then finally
RequestResolve(i) ==
    /\ Pending(i)
    /\ LET res == searchCities(requests[i].q)
       IN /\ cacheRef' = cacheSet(requests[i].q, res)
          /\ IF mounted
             THEN /\ results' = res
                  /\ loading' = FALSE
                  /\ highlightedIndex' = -1
             ELSE UNCHANGED <<results, loading, highlightedIndex>>
    /\ requests' = [requests EXCEPT ![i].state = "resolved"]
    /\ controllerRef' = 0
    /\ onSelectCalls' = <<>>
    /\ consoleErrors' = <<>>
    /\ UNCHANGED <<minQueryLength, mounted, query, isOpen, debounceRef, timers>>

\* RequestFail with the displayed results blanked on failure
RequestFailBlanksResults(i) ==
    /\ Pending(i)
    /\ requests' = [requests EXCEPT ![i].state = "failed"]
    /\ consoleErrors' = <<i>>
    /\ IF mounted
       THEN /\ loading' = FALSE
            /\ highlightedIndex' = -1
            /\ results' = <<>>
       ELSE UNCHANGED <<results, loading, highlightedIndex>>
    /\ controllerRef' = 0
    /\ onSelectCalls' = <<>>
    /\ UNCHANGED <<minQueryLength, mounted, query, isOpen,
                   debounceRef, timers, cacheRef>>

\* the source rejects request i with an error that is no AbortError (the
\* source is replaceable: the test suite mocks ../api)
RequestFail(i) ==
    /\ Pending(i)
    /\ requests' = [requests EXCEPT ![i].state = "failed"]
    /\ consoleErrors' = <<i>>
    /\ IF mounted
       THEN /\ loading' = FALSE
            /\ highlightedIndex' = -1
       ELSE UNCHANGED <<loading, highlightedIndex>>
    /\ controllerRef' = 0
    /\ onSelectCalls' = <<>>
    /\ UNCHANGED <<minQueryLength, mounted, query, results, isOpen,
                   debounceRef, timers, cacheRef>>

\* ---- keyboard ----
\* the ArrowDown updater with the wrap test off by one
ArrowDownIndexOffByOne(prev, n) == IF prev < n THEN prev + 1 ELSE 0

ArrowDownIndex(prev, n) == IF prev < n - 1 THEN prev + 1 ELSE 0

\* the ArrowUp updater without the wrap to the last item
ArrowUpIndexNoWrap(prev, n) == IF prev <= 0 THEN 0 ELSE prev - 1

ArrowUpIndex(prev, n) == IF prev <= 0 THEN n - 1 ELSE prev - 1

ArrowDown ==
    /\ mounted
    /\ isOpen' = TRUE
    /\ highlightedIndex' =
           IF Len(results) = 0 THEN highlightedIndex
           ELSE ArrowDownIndex(highlightedIndex, Len(results))
    /\ onSelectCalls' = <<>>
    /\ consoleErrors' = <<>>
    /\ UNCHANGED <<minQueryLength, mounted, query, results, loading,
                   controllerRef, debounceRef, timers, cacheRef, requests>>

ArrowUp ==
    /\ mounted
    /\ isOpen' = TRUE
    /\ highlightedIndex' =
           IF Len(results) = 0 THEN highlightedIndex
           ELSE ArrowUpIndex(highlightedIndex, Len(results))
    /\ onSelectCalls' = <<>>
    /\ consoleErrors' = <<>>
    /\ UNCHANGED <<minQueryLength, mounted, query, results, loading,
                   controllerRef, debounceRef, timers, cacheRef, requests>>

\* Escape that also clears the typed text, whose effect then runs
EscapeClearsText ==
    /\ mounted
    /\ isOpen' = FALSE
    /\ highlightedIndex' = -1
    /\ query' = <<>>
    /\ LET e == Effect(<<>>)
       IN /\ results' = IF query = <<>> THEN results ELSE e.results
          /\ loading' = IF query = <<>> THEN loading ELSE e.loading
          /\ timers' = IF query = <<>> THEN timers ELSE e.timers
          /\ debounceRef' = IF query = <<>> THEN debounceRef ELSE e.debounceRef
    /\ onSelectCalls' = <<>>
    /\ consoleErrors' = <<>>
    /\ UNCHANGED <<minQueryLength, mounted, controllerRef, cacheRef, requests>>

\* Escape without setHighlightedIndex(-1)
EscapeKeepsHighlight ==
    /\ mounted
    /\ isOpen' = FALSE
    /\ onSelectCalls' = <<>>
    /\ consoleErrors' = <<>>
    /\ UNCHANGED <<minQueryLength, mounted, query, results, loading,
                   highlightedIndex, controllerRef, debounceRef, timers,
                   cacheRef, requests>>

Escape ==
    /\ mounted
    /\ isOpen' = FALSE
    /\ highlightedIndex' = -1
    /\ onSelectCalls' = <<>>
    /\ consoleErrors' = <<>>
    /\ UNCHANGED <<minQueryLength, mounted, query, results, loading,
                   controllerRef, debounceRef, timers, cacheRef, requests>>

\* mousedown on the document, outside rootRef
OutsideMouseDown ==
    /\ mounted
    /\ isOpen' = FALSE
    /\ highlightedIndex' = -1
    /\ onSelectCalls' = <<>>
    /\ consoleErrors' = <<>>
    /\ UNCHANGED <<minQueryLength, mounted, query, results, loading,
                   controllerRef, debounceRef, timers, cacheRef, requests>>

\* ---- commit ----
\* results[idx], undefined outside the array
ResultAt(idx) ==
    IF idx + 1 \in DOMAIN results THEN results[idx + 1] ELSE Undefined

\* select(value), then the render it causes (the effect runs when the text
\* differs; undefined.trim() throws there and React removes the tree, which
\* runs the unmount cleanup), then the continuation of the aborted request.
\* React flushes the render and the effects of a keydown/mousedown handler
\* before the promise continuation runs, so the finally block's
\* setLoading(false) comes after the effect's setLoading(true).
select(value) ==
    LET abortedOne == controllerRef # 0 /\ Pending(controllerRef)
        e == Effect(value)
        crash == value = Undefined
    IN /\ query' = value
       /\ isOpen' = FALSE
       /\ highlightedIndex' = -1
       /\ requests' = abort(controllerRef)
       /\ onSelectCalls' = <<value>>
       /\ consoleErrors' = <<>>
       /\ controllerRef' = IF abortedOne THEN 0 ELSE controllerRef
       /\ mounted' = ~crash
       /\ IF crash
          THEN /\ timers' = timers \ debounceRef
               /\ debounceRef' = {}
               /\ UNCHANGED <<results, loading>>
          ELSE IF value = query
          THEN /\ loading' = IF abortedOne THEN FALSE ELSE loading
               /\ UNCHANGED <<results, timers, debounceRef>>
          ELSE /\ results' = e.results
               /\ loading' = IF abortedOne THEN FALSE ELSE e.loading
               /\ timers' = e.timers
               /\ debounceRef' = e.debounceRef
       /\ UNCHANGED <<minQueryLength, cacheRef>>

\* Enter: commits the highlighted item when the panel is open, else nothing
Enter ==
    /\ mounted
    /\ IF isOpen /\ highlightedIndex >= 0
       THEN select(ResultAt(highlightedIndex))
       ELSE /\ onSelectCalls' = <<>>
            /\ consoleErrors' = <<>>
            /\ UNCHANGED <<minQueryLength, mounted, query, results, isOpen,
                           loading, highlightedIndex, controllerRef,
                           debounceRef, timers, cacheRef, requests>>

\* the options are in the DOM only while the panel shows a non-empty list
OptionsRendered == mounted /\ isOpen /\ ~loading /\ Len(results) > 0

\* onMouseEnter of option idx
OptionMouseEnter(idx) ==
    /\ OptionsRendered
    /\ idx \in 0..(Len(results) - 1)
    /\ highlightedIndex' = idx
    /\ onSelectCalls' = <<>>
    /\ consoleErrors' = <<>>
    /\ UNCHANGED <<minQueryLength, mounted, query, results, isOpen, loading,
                   controllerRef, debounceRef, timers, cacheRef, requests>>

\* onMouseDown of option idx
OptionMouseDown(idx) ==
    /\ OptionsRendered
    /\ idx \in 0..(Len(results) - 1)
    /\ select(results[idx + 1])

\* ---- teardown ----
\* the cleanup of the mount effect, then the aborted request's continuation
Unmount ==
    /\ mounted
    /\ mounted' = FALSE
    /\ requests' = abort(controllerRef)
    /\ controllerRef' = IF controllerRef # 0 /\ Pending(controllerRef) THEN 0 ELSE controllerRef
    /\ timers' = timers \ debounceRef
    /\ onSelectCalls' = <<>>
    /\ consoleErrors' = <<>>
    /\ UNCHANGED <<minQueryLength, query, results, isOpen, loading,
                   highlightedIndex, debounceRef, cacheRef>>

Next ==
    \/ \E t \in Texts : TextChange(t)
    \/ \E q \in timers : TimerFireHit(q)
    \/ \E q \in timers : TimerFireMiss(q)
    \/ \E i \in DOMAIN requests : RequestResolve(i)
    \/ \E i \in DOMAIN requests : RequestFail(i)
    \/ ArrowDown
    \/ ArrowUp
    \/ Enter
    \/ Escape
    \/ OutsideMouseDown
    \/ \E idx \in 0..(Len(data) - 1) : OptionMouseEnter(idx)
    \/ \E idx \in 0..(Len(data) - 1) : OptionMouseDown(idx)
    \/ Unmount

Spec == Init /\ [][Next]_vars

\* ---- vocabulary of the properties ----
\* the step is a user text change (onChange), not a commit's assignment
IsTextChange == mounted /\ query' # query /\ onSelectCalls' = <<>>

\* the step is a commit: select ran and called onSelect
IsCommit == onSelectCalls' # <<>>

\* the step is the firing of the debounce timer set for q
IsTimerFire(q) ==
    /\ q \in timers
    /\ q \notin timers'
    /\ query' = query
    /\ mounted' = mounted

\* the step sends a request to the suggestion source
IsFetch == Len(requests') > Len(requests)

\* the step applies the result of request i to the displayed results
IsApply(i) == mounted /\ Pending(i) /\ requests'[i].state = "resolved"

Resolved(q) == {i \in DOMAIN requests : requests[i].q = q /\ requests[i].state = "resolved"}

Short(t) == Len(trim(t)) < minQueryLength

\* C1: at most one request is live (sent, not settled, not aborted) in every
\* reachable state, and a timer firing on a cache miss leaves no earlier
\* request live next to the one it sends.
C1_SingleFlight == Cardinality(Live) <= 1

\* C2: whenever the result of a request is applied to the displayed results,
\* that request is the most recently sent one.
C2_NoStaleOverwrite ==
    [][\A i \in DOMAIN requests : IsApply(i) => i = Len(requests)]_vars

\* the step serves q from the cache: no request, the cached sequence shown
ServedFromCache(q) == ~IsFetch /\ (mounted => results' = cacheRef[q])

\* C3: a timer firing for a cached q sends no request and makes the results
\* the cached sequence for q; and the source resolves at most one request per
\* distinct trimmed query.
C3_CachedNeverFetched ==
    /\ [][\A q \in timers :
            (IsTimerFire(q) /\ q \in DOMAIN cacheRef) => ServedFromCache(q)]_vars
    /\ [](\A i \in DOMAIN requests : Cardinality(Resolved(requests[i].q)) <= 1)

\* C4: debounce coalescing.  At most one timer is ever pending and it is the
\* one of the current text, so keystrokes that arrive before the timer fires
\* replace it; a user text change to a text long enough leaves exactly the
\* timer of its trimmed text and sends nothing; a step that sends a request
\* sends exactly one, for the trimmed current text, and uses up the timer.
C4_DebounceCoalescing ==
    [][/\ timers' \subseteq {trim(query')}
       /\ (IsTextChange /\ ~Short(query'))
              => (timers' = {trim(query')} /\ ~IsFetch)
       /\ IsFetch
              => /\ Len(requests') = Len(requests) + 1
                 /\ timers = {trim(query)}
                 /\ requests'[Len(requests')].q = trim(query)
                 /\ timers' = {}]_vars

\* C4 witness: with minQueryLength 1 the user has typed up to "bo", the timer
\* has fired, and the only request ever sent is the one for "bo".
C4_Witness ==
    /\ minQueryLength = 1
    /\ query = <<"b", "o">>
    /\ timers = {}
    /\ requests = <<[q |-> <<"b", "o">>, state |-> "pending"]>>

\* C5: no request is ever sent for a text whose trimmed length is below
\* minQueryLength, and while the text is such a text the results are empty.
C5_ShortQueryEmpty ==
    /\ \A i \in DOMAIN requests : Len(requests[i].q) >= minQueryLength
    /\ (mounted /\ Short(query)) => results = <<>>

\* C6: the highlight index is -1 or an index of the current results.
C6_HighlightInBounds ==
    highlightedIndex = -1
        \/ (0 <= highlightedIndex /\ highlightedIndex < Len(results))

\* C7: after a user text change and after any change of the results the
\* highlight index is -1; a text change leaves the panel open.
C7_HighlightReset ==
    [][/\ (IsTextChange \/ (mounted /\ results' # results)) => highlightedIndex' = -1
       /\ IsTextChange => isOpen']_vars

\* the state as the user sees it and as the controller holds it
Observable ==
    <<mounted, query, results, isOpen, loading, highlightedIndex,
      controllerRef, debounceRef, timers, cacheRef, requests>>

\* C8: Enter with the panel open and highlight h >= 0, or a pointer press on
\* an option, calls onSelect exactly once with the element h of the results,
\* makes it the text, closes the panel and resets the highlight; Enter in any
\* other state changes nothing and calls nothing.
C8_Commit ==
    [][/\ (Enter /\ isOpen /\ highlightedIndex >= 0)
              => /\ highlightedIndex + 1 \in DOMAIN results
                 /\ onSelectCalls' = <<results[highlightedIndex + 1]>>
                 /\ query' = results[highlightedIndex + 1]
                 /\ ~isOpen'
                 /\ highlightedIndex' = -1
       /\ \A idx \in 0..(Len(results) - 1) :
              OptionMouseDown(idx)
                  => /\ onSelectCalls' = <<results[idx + 1]>>
                     /\ query' = results[idx + 1]
                     /\ ~isOpen'
                     /\ highlightedIndex' = -1
       /\ (Enter /\ ~(isOpen /\ highlightedIndex >= 0))
              => (onSelectCalls' = <<>> /\ Observable' = Observable)]_vars

\* C9: a commit starts no query: it starts no debounce timer, does not turn
\* loading on and sends no request.
C9_CommitStartsNoQuery ==
    [][IsCommit => (timers' \subseteq timers /\ (loading' => loading) /\ ~IsFetch)]_vars

\* C10: while the panel is closed the highlight index is -1.
C10_ClosedMeansNoHighlight == (~isOpen) => highlightedIndex = -1

\* C10 witness: the panel has been closed again while results are on display
\* (results appear only after typing, which opens the panel).
C10_Witness == mounted /\ ~isOpen /\ Len(results) > 0 /\ onSelectCalls = <<>>

\* C11: ArrowDown with the panel open and N > 0 results takes the highlight
\* h in -1..N-1 to (h+1) mod N; with no results it leaves the highlight.
C11_ArrowDownCycles ==
    [][ArrowDown =>
          /\ (isOpen /\ Len(results) > 0
                  /\ highlightedIndex \in -1..(Len(results) - 1))
                 => highlightedIndex' = (highlightedIndex + 1) % Len(results)
          /\ Len(results) = 0 => highlightedIndex' = highlightedIndex]_vars

\* C11 witness: the highlight is on the last of three results of an open
\* panel, from where the next ArrowDown wraps.
C11_Witness ==
    mounted /\ isOpen /\ Len(results) = 3 /\ highlightedIndex = 2

\* C12: after teardown no debounce timer is pending, no request is still
\* live (every outstanding one has been aborted) and no request is sent.
C12_Dispose ==
    /\ [](~mounted => (timers = {} /\ Live = {}))
    /\ [][~mounted => ~IsFetch]_vars

\* the step rejects request i with an AbortError
IsAbort(i) == Pending(i) /\ requests'[i].state = "aborted"

\* the step rejects request i with another error
IsFail(i) == Pending(i) /\ requests'[i].state = "failed"

\* C13: a failed request changes neither the results nor the cache.  An
\* abort reports nothing to console.error; any other failure is reported and
\* clears loading.  (A commit that aborts also assigns the text, whose effect
\* is not part of the failure: the results are compared when the text stays.)
C13_FailureKeepsResults ==
    [][\A i \in DOMAIN requests :
         /\ IsAbort(i)
                => /\ consoleErrors' = <<>>
                   /\ cacheRef' = cacheRef
                   /\ query' = query => results' = results
         /\ IsFail(i)
                => /\ consoleErrors' = <<i>>
                   /\ cacheRef' = cacheRef
                   /\ results' = results
                   /\ mounted => ~loading']_vars

\* C13 witness: a request has just failed while results of an earlier one
\* are on display.
C13_Witness == mounted /\ consoleErrors # <<>> /\ Len(results) > 0

\* C14: a resolved request for q stores the source's sequence under q and
\* shows it; every cache entry is the source's answer for its key, exists
\* only once a request for that key has resolved, and is never removed or
\* replaced.
C14_CacheIsSourceAnswer ==
    /\ [](\A q \in DOMAIN cacheRef :
            cacheRef[q] = searchCities(q) /\ Resolved(q) # {})
    /\ [][/\ \A q \in DOMAIN cacheRef :
                q \in DOMAIN cacheRef' /\ cacheRef'[q] = cacheRef[q]
          /\ \A i \in DOMAIN requests :
                (Pending(i) /\ requests'[i].state = "resolved")
                    => /\ requests[i].q \in DOMAIN cacheRef'
                       /\ cacheRef'[requests[i].q] = searchCities(requests[i].q)
                       /\ mounted => results' = searchCities(requests[i].q)
          /\ cacheRef' # cacheRef
                => \E i \in DOMAIN requests :
                       Pending(i) /\ requests'[i].state = "resolved"]_vars

\* C14 witness: two queries are cached and the one on display has more than
\* one city, in the source's order.
C14_Witness ==
    /\ Cardinality(DOMAIN cacheRef) >= 2
    /\ Len(results) >= 2

\* C15: a text change to a text whose trimmed length is below minQueryLength
\* leaves no debounce timer pending and no request live.
C15_ShortQueryCancels ==
    [][(IsTextChange /\ Short(query')) => (timers' = {} /\ Live' = {})]_vars

\* C16: in the state right after a commit no request is live.
C16_CommitCancels == [][IsCommit => Live' = {}]_vars

\* C17: a text change to a text whose trimmed query is in the cache does not
\* turn loading on.
C17_CachedNeverLoading ==
    [][(IsTextChange /\ trim(query') \in DOMAIN cacheRef)
           => (loading' => loading)]_vars

\* the most recently sent request is still outstanding
LastPending == Len(requests) > 0 /\ Pending(Len(requests))

\* C18: while the most recently sent request is outstanding and the text is
\* the one it was sent for, loading is true: it is true once the request has
\* been sent, and no step that keeps the text and leaves that request
\* outstanding clears it.
C18_LoadingWhileOutstanding ==
    [][(mounted' /\ LastPending' /\ query' = query /\ (IsFetch \/ loading))
           => loading']_vars

\* C19 as claimed: ArrowUp with the panel open and N > 0 results takes the
\* highlight h in -1..N-1 to (h-1) mod N; with no results it leaves it.
C19_ArrowUpModulo ==
    [][ArrowUp =>
          /\ (isOpen /\ Len(results) > 0
                  /\ highlightedIndex \in -1..(Len(results) - 1))
                 => highlightedIndex' = (highlightedIndex - 1) % Len(results)
          /\ Len(results) = 0 => highlightedIndex' = highlightedIndex]_vars

\* C19 amended: ArrowUp with the panel open and N > 0 results takes the
\* highlight h in 0..N-1 to (h-1) mod N and the highlight -1 to N-1, the
\* last item; with no results it leaves the highlight.
C19_ArrowUpCycles ==
    [][ArrowUp =>
          /\ (isOpen /\ Len(results) > 0
                  /\ highlightedIndex \in 0..(Len(results) - 1))
                 => highlightedIndex' = (highlightedIndex - 1) % Len(results)
          /\ (isOpen /\ Len(results) > 0 /\ highlightedIndex = -1)
                 => highlightedIndex' = Len(results) - 1
          /\ Len(results) = 0 => highlightedIndex' = highlightedIndex]_vars

\* C19 witness: ArrowUp-reachable wrap: three results are on display, not
\* loading, and the highlight is on the last one while the first text is
\* still in the input.
C19_Witness ==
    /\ mounted /\ isOpen /\ ~loading
    /\ query = <<"b">>
    /\ Len(results) = 3
    /\ highlightedIndex = Len(results) - 1

\* C20: ArrowDown with the panel closed opens it and leaves the highlight
\* where it was.
C20_ArrowDownOpensOnly ==
    [][(ArrowDown /\ ~isOpen)
           => (isOpen' /\ highlightedIndex' = highlightedIndex)]_vars

\* the step is Escape, an outside mousedown, ArrowDown, ArrowUp or a hover
IsNavigation ==
    \/ Escape
    \/ OutsideMouseDown
    \/ ArrowDown
    \/ ArrowUp
    \/ \E idx \in 0..(Len(results) - 1) : OptionMouseEnter(idx)

\* C21: Escape, an outside interaction, ArrowDown, ArrowUp and a pointer
\* hover change nothing but the open flag and the highlight: the text, the
\* results, loading, the cache, the pending timer and the requests stay as
\* they are, and no request is sent.
C21_NavigationFrame ==
    [][IsNavigation =>
          /\ UNCHANGED <<query, results, loading, cacheRef, timers,
                         debounceRef, controllerRef, requests>>
          /\ ~IsFetch
          /\ onSelectCalls' = <<>>]_vars

\* C21 witness: the panel has been closed by Escape or an outside mousedown
\* (the typed text is still there) while a timer is pending and a request is
\* live.
C21_Witness ==
    /\ mounted /\ ~isOpen
    /\ query \in Texts /\ query # <<>>
    /\ timers # {}
    /\ Live # {}

\* the user has stopped on a typed text long enough, every timer has fired
\* and every request has settled, none of them by a failure of the source
Settled ==
    /\ mounted
    /\ query \in Texts
    /\ ~Short(query)
    /\ timers = {}
    /\ Live = {}
    /\ \A i \in DOMAIN requests : requests[i].state # "failed"

\* C22: once the user has stopped on a text whose trimmed query q is long
\* enough and every request that was not cancelled has resolved, loading is
\* false and the results are the source's answer for q.
C22_Convergence ==
    Settled => (~loading /\ results = searchCities(trim(query)))
====
